---- MODULE Spec2Model ----
(***************************************************************************)
(* Model of wavenet/audio_reader.py: the AudioReader that decodes audio    *)
(* files in background threads, cuts them into windows and enqueues the    *)
(* windows (and, when enabled, category ids and conditioning embeddings)   *)
(* on bounded FIFO queues that a training loop drains.                     *)
(*                                                                         *)
(* Conventions.  A Python Optional is a sequence: <<>> is None and <<v>>   *)
(* is the value v.  A file name is a sequence of one-character strings.    *)
(* A waveform is a sequence of non-negative fixed-point samples in which   *)
(* Unit stands for 1.0.  load_generic_audio's result is taken to be the    *)
(* (n, 1) column that thread_main's indexing expects.                      *)
(***************************************************************************)
EXTENDS Integers, Sequences, FiniteSets, TLC

\* ------------------------------------------------------------------ bounds
MaxThreads == 2      \* largest n_threads given to start_threads
QueueSize == 2       \* queue_size given to the constructor
MaxFiles == 2        \* files the workers decode in all before the run is cut
MaxBatch == 2        \* largest num_elements given to a dequeue
FrameLength == 4     \* trim_silence's frame_length, scaled down
HopLength == 2       \* librosa's hop between energy frames, scaled down

ReceptiveField == 1  \* receptive_field given to the constructor
SampleSize == 2      \* sample_size given to the constructor, when set
SampleRate == 1      \* sample_rate given to the constructor
Unit == 4            \* the fixed-point value of 1.0

\* ------------------------------------------------------- program constants
TrailSeconds == 5    \* audio[:-5*sample_rate]

None == <<>>
Some(v) == <<v>>

Min(a, b) == IF a < b THEN a ELSE b
Max(a, b) == IF a > b THEN a ELSE b

\* -------------------------------------------------------------- file names
Digits == {"0", "1", "2", "3", "4", "5", "6", "7", "8", "9"}

DigitVal(c) ==
  CASE c = "0" -> 0 [] c = "1" -> 1 [] c = "2" -> 2 [] c = "3" -> 3
    [] c = "4" -> 4 [] c = "5" -> 5 [] c = "6" -> 6 [] c = "7" -> 7
    [] c = "8" -> 8 [] c = "9" -> 9

\* The character of s at position i, or "" past its end.
At(s, i) == IF i \in 1..Len(s) THEN s[i] ELSE ""

\* [0-9]+ is greedy: the length of the run of digits of s that starts at i.
RECURSIVE DigitRun(_, _)
DigitRun(s, i) == IF At(s, i) \in Digits THEN 1 + DigitRun(s, i + 1) ELSE 0

\* int() of the digits s[i .. i+n-1].
RECURSIVE ToInt(_, _, _)
ToInt(s, i, n) ==
  IF n = 0 THEN 0 ELSE 10 * ToInt(s, i, n - 1) + DigitVal(s[i + n - 1])

\* FILE_PATTERN = p([0-9]+)_([0-9]+)\.wav matched with its "p" at position i.
MatchAt(s, i) ==
  LET d1 == DigitRun(s, i + 1)
      j  == i + 1 + d1
      d2 == DigitRun(s, j + 1)
      k  == j + 1 + d2
  IN  /\ At(s, i) = "p"
      /\ d1 >= 1
      /\ At(s, j) = "_"
      /\ d2 >= 1
      /\ At(s, k) = "."
      /\ At(s, k + 1) = "w"
      /\ At(s, k + 2) = "a"
      /\ At(s, k + 3) = "v"

\* The two groups of the match at i, as integers.
GroupsAt(s, i) ==
  LET d1 == DigitRun(s, i + 1)
      j  == i + 1 + d1
      d2 == DigitRun(s, j + 1)
  IN  <<ToInt(s, i + 1, d1), ToInt(s, j + 1, d2)>>

\* id_reg_exp.findall(filename): here its first element only, as an Optional
\* (None when findall returns the empty list).
FindAll(s) ==
  LET hits == {i \in 1..Len(s) : MatchAt(s, i)}
      first == {i \in hits : \A h \in hits : i <= h}
  IN  IF hits = {} THEN None
      ELSE CHOOSE ids \in {Some(GroupsAt(s, i)) : i \in first} : TRUE

\* A changed CategoryId: int(ids[0][1]), the recording's number.
CategoryId_SecondGroup(filename) ==
  LET ids == FindAll(filename)
  IN  IF ids = None THEN None ELSE Some(ids[1][2])

\* load_generic_audio's category_id of a file name.
CategoryId(filename) ==
  LET ids == FindAll(filename)
  IN  IF ids = None THEN None ELSE Some(ids[1][1])

RECURSIVE not_all_have_id(_)
not_all_have_id(files) ==
  IF files = <<>> THEN FALSE
  ELSE IF FindAll(Head(files).name) = None THEN TRUE
       ELSE not_all_have_id(Tail(files))

RECURSIVE CardinalityScan(_, _, _)
CardinalityScan(files, min_id, max_id) ==
  IF files = <<>> THEN <<min_id, max_id>>
  ELSE LET pianist_id == FindAll(Head(files).name)[1][1]
           lo == IF min_id = None \/ pianist_id < min_id[1]
                 THEN Some(pianist_id) ELSE min_id
           hi == IF max_id = None \/ pianist_id > max_id[1]
                 THEN Some(pianist_id) ELSE max_id
       IN  CardinalityScan(Tail(files), lo, hi)

\* A changed get_category_cardinality: the ids of the first and the last file.
get_category_cardinality_FirstLast(files) ==
  <<Some(FindAll(files[1].name)[1][1]), Some(FindAll(files[Len(files)].name)[1][1])>>

get_category_cardinality(files) == CardinalityScan(files, None, None)

\* ---------------------------------------------------------------- waveforms
\* Python's a[lo:hi] for 0 <= lo and 0 <= hi (both clipped to len(a)).
Slice(a, lo, hi) == SubSeq(a, Min(lo, Len(a)) + 1, Min(hi, Len(a)))

\* Python's a[:-n] for n >= 0; -0 is 0, so a[:-0] is empty.
DropLast(a, n) == IF n = 0 THEN <<>> ELSE Slice(a, 0, Max(Len(a) - n, 0))

\* np.max(np.abs(a)) of non-negative samples, 0 for an empty waveform.
Peak(a) ==
  IF a = <<>> THEN 0
  ELSE CHOOSE x \in {a[i] : i \in DOMAIN a} : \A i \in DOMAIN a : x >= a[i]

\* librosa.util.normalize: divide by the peak; an all-zero waveform is kept.
Normalize(a) ==
  LET peak == Peak(a)
  IN  IF peak = 0 THEN a ELSE [i \in 1..Len(a) |-> (a[i] * Unit) \div peak]

\* np.pad(audio, [[receptive_field, 0], [0, 0]], 'constant')
PadHead(a, n) == [i \in 1..n |-> 0] \o a

\* The sample of y under position p of y reflect-padded by h on both sides.
Reflected(y, h, p) ==
  LET q == p - h
  IN  IF q < 1 THEN y[2 - q] ELSE IF q > Len(y) THEN y[2 * Len(y) - q] ELSE y[q]

RECURSIVE SumSq(_, _, _, _)
SumSq(y, h, from, n) ==
  IF n = 0 THEN 0
  ELSE Reflected(y, h, from) * Reflected(y, h, from) + SumSq(y, h, from + 1, n - 1)

\* The frames t whose rms energy exceeds the threshold: librosa.feature.rmse
\* centres frame t on sample t * hop of the reflect-padded waveform, and
\* sqrt(mean(x^2)) > threshold iff sum(x^2) > threshold^2 * frame_length.
LoudFrames(y, threshold, frame_length) ==
  LET h == frame_length \div 2
      last == (Len(y) + 2 * h - frame_length) \div HopLength
  IN  {t \in 0..last :
         SumSq(y, h, t * HopLength + 1, frame_length)
           > threshold * threshold * frame_length}

SetMin(S) == CHOOSE x \in S : \A y \in S : x <= y
SetMax(S) == CHOOSE x \in S : \A y \in S : x >= y

trim_silence(audio, threshold) ==
  LET frame_length == IF Len(audio) < FrameLength THEN Len(audio) ELSE FrameLength
      frames == LoudFrames(audio, threshold, frame_length)
  IN  IF frames = {} THEN Slice(audio, 0, 0)
      ELSE Slice(audio, SetMin(frames) * HopLength, SetMax(frames) * HopLength)

\* A changed LoopTest: while len(audio) >= window.
LoopTest_Inclusive(audio, window) == Len(audio) >= window

\* A changed Advance: audio = audio[window:, :], windows that do not overlap.
Advance_NoOverlap(audio, sample_size) ==
  Slice(audio, sample_size + ReceptiveField, Len(audio))

\* The test, the cut and the advance of the segmentation loop.
LoopTest(audio, window) == Len(audio) > window
Piece(audio, window) == Slice(audio, 0, window)
Advance(audio, sample_size) == Slice(audio, sample_size, Len(audio))

\* ------------------------------------------------------------------ corpus
TrailLen == TrailSeconds * SampleRate

Loud(n)   == [i \in 1..n |-> 1 + (i % 3)]
Silent(n) == [i \in 1..n |-> 0]
\* What librosa.load returns for a recording whose kept part has n samples.
Recording(kept) == kept \o Loud(TrailLen)

Name11  == <<"p", "1", "_", "1", ".", "w", "a", "v">>
Name27  == <<"p", "2", "_", "7", ".", "w", "a", "v">>
Name123 == <<"a", "p", "1", "2", "_", "3", ".", "w", "a", "v">>
NameRec == <<"r", "e", "c", ".", "w", "a", "v">>

FileA == [name |-> Name11,  decodes |-> TRUE,  raw |-> Recording(Loud(SampleSize + 1))]
FileB == [name |-> Name27,  decodes |-> TRUE,  raw |-> Recording(Loud(3 * SampleSize))]
FileC == [name |-> Name123, decodes |-> TRUE,  raw |-> Recording(Silent(2 * SampleSize + 1))]
FileD == [name |-> NameRec, decodes |-> TRUE,  raw |-> Recording(Loud(2 * SampleSize + 1))]
FileE == [name |-> Name27,  decodes |-> FALSE, raw |-> <<>>]

\* The directories the reader is pointed at (find_files' result for each),
\* each with the silence_threshold it is read with.
Setups ==
  {[files |-> <<>>,             silence_threshold |-> None],
   [files |-> <<FileA, FileB>>, silence_threshold |-> None],
   [files |-> <<FileA, FileC>>, silence_threshold |-> Some(1)],
   [files |-> <<FileD>>,        silence_threshold |-> None],
   [files |-> <<FileE, FileA>>, silence_threshold |-> None]}

\* ------------------------------------------------------------------- state
VARIABLES
  audio_dir,      \* the files under the directory, in find_files' order
  reader,         \* the AudioReader's fields set from the constructor's arguments
  ctor,           \* "new", then "ok" or "ValueError": how __init__ ended
  threads,        \* self.threads: the workers start_threads has started
  coord_stop,     \* coord.should_stop()
  queue,          \* self.queue
  gc_queue,       \* self.gc_queue
  lc_queue,       \* self.lc_queue
  pc,             \* where each worker is in thread_main
  stop,           \* thread_main's local stop
  iter_left,      \* file names the worker's iterator has still to yield
  file_index,     \* the file the iterator yielded last (0 before the first)
  category_id,    \* thread_main's category_id
  audio,          \* thread_main's audio
  piece,          \* thread_main's piece
  stat,           \* history, per worker: files decoded (nth), padded length
                  \* and windows enqueued of the current file (padded, cut),
                  \* and elements enqueued on each queue (s, gc, lc)
  pushed,         \* history: everything ever enqueued, per queue
  popped,         \* history: everything the consumer has dequeued, per queue
  stop_mark,      \* history: when the stop was requested, Len(pushed.s) and
                  \* the file each worker was enqueueing windows of (0: none)
  loaded          \* history: files decoded by all workers before the stop

vars == <<audio_dir, reader, ctor, threads, coord_stop, queue, gc_queue, lc_queue,
          pc, stop, iter_left, file_index, category_id, audio, piece,
          stat, pushed, popped, stop_mark, loaded>>

config   == <<audio_dir, reader>>
queues   == <<queue, gc_queue, lc_queue>>
locals   == <<stop, iter_left, file_index, category_id, audio, piece>>

Workers == 1..MaxThreads

Readers(silence_threshold) ==
  [gc_enabled : BOOLEAN, lc_enabled : BOOLEAN,
   sample_size : {0, SampleSize},          \* 0 is falsy like None: whole-file mode
   silence_threshold : {silence_threshold},
   receptive_field : {ReceptiveField},
   sample_rate : {SampleRate},
   queue_size : {QueueSize}]

Init ==
  /\ \E setup \in Setups :
       /\ audio_dir = setup.files
       /\ reader \in Readers(setup.silence_threshold)
  /\ ctor = "new"
  /\ threads = {}
  /\ coord_stop = FALSE
  /\ queue = <<>>
  /\ gc_queue = <<>>
  /\ lc_queue = <<>>
  /\ pc = [w \in Workers |-> "idle"]
  /\ stop = [w \in Workers |-> FALSE]
  /\ iter_left = [w \in Workers |-> 0]
  /\ file_index = [w \in Workers |-> 0]
  /\ category_id = [w \in Workers |-> None]
  /\ audio = [w \in Workers |-> <<>>]
  /\ piece = [w \in Workers |-> <<>>]
  /\ stat = [w \in Workers |->
               [nth |-> 0, padded |-> 0, cut |-> 0, s |-> 0, gc |-> 0, lc |-> 0]]
  /\ pushed = [s |-> <<>>, gc |-> <<>>, lc |-> <<>>]
  /\ popped = [s |-> <<>>, gc |-> <<>>, lc |-> <<>>]
  /\ stop_mark = [at |-> 0, nth |-> [w \in Workers |-> 0]]
  /\ loaded = 0

\* ------------------------------------------------------------- constructor
\* A changed InitRaises: the check of the names is left out.
InitRaises_EmptyOnly(files, gc_enabled) == files = <<>>

\* AudioReader.__init__: the queues are built, then the directory is checked.
InitRaises(files, gc_enabled) ==
  \/ files = <<>>
  \/ gc_enabled /\ not_all_have_id(files)

Construct ==
  /\ ctor = "new"
  /\ ctor' = IF InitRaises(audio_dir, reader.gc_enabled) THEN "ValueError" ELSE "ok"
  /\ UNCHANGED <<config, threads, coord_stop, queues, pc, locals, stat, pushed,
                 popped, stop_mark, loaded>>

\* self.gc_category_cardinality as the constructor leaves it.
gc_category_cardinality ==
  IF reader.gc_enabled
  THEN Some(get_category_cardinality(audio_dir)[2][1] + 1)
  ELSE None

\* start_threads(sess, n_threads): every thread enters thread_main, finds stop
\* False and makes its first iterator.
StartThreads(n_threads) ==
  /\ ctor = "ok"
  /\ threads = {}
  /\ threads' = 1..n_threads
  /\ pc' = [w \in Workers |-> IF w \in 1..n_threads THEN "for" ELSE pc[w]]
  /\ iter_left' = [w \in Workers |-> IF w \in 1..n_threads THEN Len(audio_dir) ELSE 0]
  /\ UNCHANGED <<config, ctor, coord_stop, queues, stop, file_index, category_id,
                 audio, piece, stat, pushed, popped, stop_mark, loaded>>

\* The places of thread_main at which a worker is in a sess.run of an enqueue.
EnqueuePcs ==
  {"enqueue", "gc_enqueue", "lc_enqueue", "enqueue_whole", "gc_enqueue_whole"}

\* coord.request_stop(), by whoever owns the coordinator.
RequestStop ==
  /\ ctor = "ok"
  /\ ~coord_stop
  /\ coord_stop' = TRUE
  /\ stop_mark' = [at |-> Len(pushed.s),
                   nth |-> [w \in Workers |-> IF pc[w] \in EnqueuePcs
                                              THEN stat[w].nth ELSE 0]]
  /\ UNCHANGED <<config, ctor, threads, queues, pc, locals, stat, pushed, popped,
                 loaded>>

\* ------------------------------------------------------------- thread_main
\* A changed Full: a queue that takes one element more than queue_size.
Full_OffByOne(q) == Len(q) > reader.queue_size

\* A changed Full: a queue that blocks one element short of queue_size.
Full_OneShort(q) == Len(q) >= reader.queue_size - 1

\* sess.run of an enqueue op blocks while the queue holds queue_size elements.
Full(q) == Len(q) >= reader.queue_size

\* load_generic_audio's decoding of one file: normalize, then drop the tail.
Decoded(file) == DropLast(Normalize(file.raw), TrailSeconds * reader.sample_rate)

\* Lines 177-187: the optional silence trimming, then the padding.
Preprocessed(a) ==
  LET trimmed == IF reader.silence_threshold # None
                 THEN trim_silence(a, reader.silence_threshold[1])
                 ELSE a
  IN  PadHead(trimmed, reader.receptive_field)

\* The element a worker puts on the samples queue; src, by, nth and off are
\* history: the file it was cut from, the worker, the worker's count of
\* decoded files and the number of the window within the file.
SampleOf(w, samples) ==
  [piece |-> samples, src |-> file_index[w], by |-> w,
   nth |-> stat[w].nth, off |-> stat[w].cut]

\* The element a worker puts on the conditioning queue: the embedding of the
\* window it has just enqueued, named by that window.
EmbeddingOf(w) ==
  [by |-> w, nth |-> stat[w].nth, off |-> stat[w].cut - 1]

\* for audio, filename, category_id in iterator: the iterator is exhausted;
\* stop is still False, so while not stop makes the next iterator.
ForEnd(w) ==
  /\ pc[w] = "for"
  /\ iter_left[w] = 0
  /\ iter_left' = [iter_left EXCEPT ![w] = Len(audio_dir)]
  /\ UNCHANGED <<config, ctor, threads, coord_stop, queues, pc, stop, file_index,
                 category_id, audio, piece, stat, pushed, popped, stop_mark, loaded>>

\* for audio, filename, category_id in iterator: the iterator draws a file
\* and decodes it; librosa.load's exception is caught nowhere.  The run is
\* cut after MaxFiles files, unless the stop is requested: a file decoded
\* then is dropped at the check that follows.
ForNext(w, index) ==
  /\ pc[w] = "for"
  /\ iter_left[w] > 0
  /\ loaded < MaxFiles \/ coord_stop
  /\ index \in 1..Len(audio_dir)
  /\ iter_left' = [iter_left EXCEPT ![w] = @ - 1]
  /\ file_index' = [file_index EXCEPT ![w] = index]
  /\ loaded' = IF coord_stop THEN loaded ELSE loaded + 1
  /\ stat' = [stat EXCEPT ![w].nth = @ + 1, ![w].padded = 0, ![w].cut = 0]
  /\ IF audio_dir[index].decodes
     THEN /\ pc' = [pc EXCEPT ![w] = "should_stop"]
          /\ category_id' = [category_id EXCEPT ![w] = CategoryId(audio_dir[index].name)]
          /\ audio' = [audio EXCEPT ![w] = Decoded(audio_dir[index])]
     ELSE /\ pc' = [pc EXCEPT ![w] = "raised"]
          /\ UNCHANGED <<category_id, audio>>
  /\ UNCHANGED <<config, ctor, threads, coord_stop, queues, stop, piece, pushed,
                 popped, stop_mark>>

\* while len(audio) > window: piece = audio[:window, :] -- where the worker
\* goes from the top of the segmentation loop with a left of audio, and the
\* piece it holds then.
Window == reader.receptive_field + reader.sample_size
LoopTop(a) == IF LoopTest(a, Window) THEN "enqueue" ELSE "for"
LoopPiece(w, a) == IF LoopTest(a, Window) THEN Piece(a, Window) ELSE piece[w]

\* A changed should_stop: the worker never sees the stop.
should_stop_Never == FALSE

\* self.coord.should_stop()
should_stop == coord_stop

\* if self.coord.should_stop(): stop = True; break, which ends while not stop
\* and thread_main.  Otherwise lines 177-193: trim, pad, the choice between
\* the two modes and, in fixed-size mode, the first test of the loop.
ShouldStop(w) ==
  /\ pc[w] = "should_stop"
  /\ IF should_stop
     THEN /\ stop' = [stop EXCEPT ![w] = TRUE]
          /\ pc' = [pc EXCEPT ![w] = "exit"]
          /\ UNCHANGED <<audio, piece, stat>>
     ELSE /\ audio' = [audio EXCEPT ![w] = Preprocessed(@)]
          /\ stat' = [stat EXCEPT ![w].padded = Len(Preprocessed(audio[w]))]
          /\ pc' = [pc EXCEPT ![w] = IF reader.sample_size # 0
                                     THEN LoopTop(Preprocessed(audio[w]))
                                     ELSE "enqueue_whole"]
          /\ piece' = [piece EXCEPT ![w] = IF reader.sample_size # 0
                                           THEN LoopPiece(w, Preprocessed(audio[w]))
                                           ELSE @]
          /\ UNCHANGED stop
  /\ UNCHANGED <<config, ctor, threads, coord_stop, queues, iter_left, file_index,
                 category_id, pushed, popped, stop_mark, loaded>>

\* A changed Enqueue: the queue takes the window at its head.
Enqueue_AtHead(w) ==
  LET rest == Advance(audio[w], reader.sample_size)
      last == ~reader.gc_enabled /\ ~reader.lc_enabled
  IN  /\ pc[w] = "enqueue"
      /\ ~Full(queue)
      /\ queue' = <<SampleOf(w, piece[w])>> \o queue
      /\ pushed' = [pushed EXCEPT !.s = Append(@, SampleOf(w, piece[w]))]
      /\ audio' = [audio EXCEPT ![w] = rest]
      /\ stat' = [stat EXCEPT ![w].cut = @ + 1, ![w].s = @ + 1]
      /\ pc' = [pc EXCEPT ![w] = IF reader.gc_enabled THEN "gc_enqueue"
                                 ELSE IF reader.lc_enabled THEN "lc_enqueue"
                                 ELSE LoopTop(rest)]
      /\ piece' = [piece EXCEPT ![w] = IF last THEN LoopPiece(w, rest) ELSE @]
      /\ UNCHANGED <<config, ctor, threads, coord_stop, gc_queue, lc_queue, stop,
                     iter_left, file_index, category_id, popped, stop_mark, loaded>>

\* sess.run(self.enqueue, ...); audio = audio[self.sample_size:, :]
\* With neither conditioning enabled the loop's next test follows.
Enqueue(w) ==
  LET rest == Advance(audio[w], reader.sample_size)
      last == ~reader.gc_enabled /\ ~reader.lc_enabled
  IN  /\ pc[w] = "enqueue"
      /\ ~Full(queue)
      /\ queue' = Append(queue, SampleOf(w, piece[w]))
      /\ pushed' = [pushed EXCEPT !.s = Append(@, SampleOf(w, piece[w]))]
      /\ audio' = [audio EXCEPT ![w] = rest]
      /\ stat' = [stat EXCEPT ![w].cut = @ + 1, ![w].s = @ + 1]
      /\ pc' = [pc EXCEPT ![w] = IF reader.gc_enabled THEN "gc_enqueue"
                                 ELSE IF reader.lc_enabled THEN "lc_enqueue"
                                 ELSE LoopTop(rest)]
      /\ piece' = [piece EXCEPT ![w] = IF last THEN LoopPiece(w, rest) ELSE @]
      /\ UNCHANGED <<config, ctor, threads, coord_stop, gc_queue, lc_queue, stop,
                     iter_left, file_index, category_id, popped, stop_mark, loaded>>

\* A changed GcEnqueue: the id is not enqueued.
GcEnqueue_Skipped(w) ==
  /\ pc[w] = "gc_enqueue"
  /\ pc' = [pc EXCEPT ![w] = IF reader.lc_enabled THEN "lc_enqueue"
                             ELSE LoopTop(audio[w])]
  /\ piece' = [piece EXCEPT ![w] = IF reader.lc_enabled THEN @
                                   ELSE LoopPiece(w, audio[w])]
  /\ UNCHANGED <<config, ctor, threads, coord_stop, queues, stop, iter_left,
                 file_index, category_id, audio, stat, pushed, popped, stop_mark,
                 loaded>>

\* if self.gc_enabled: sess.run(self.gc_enqueue, ...)
\* With local conditioning disabled the loop's next test follows.
GcEnqueue(w) ==
  /\ pc[w] = "gc_enqueue"
  /\ ~Full(gc_queue)
  /\ gc_queue' = Append(gc_queue, category_id[w][1])
  /\ pushed' = [pushed EXCEPT !.gc = Append(@, category_id[w][1])]
  /\ stat' = [stat EXCEPT ![w].gc = @ + 1]
  /\ pc' = [pc EXCEPT ![w] = IF reader.lc_enabled THEN "lc_enqueue"
                             ELSE LoopTop(audio[w])]
  /\ piece' = [piece EXCEPT ![w] = IF reader.lc_enabled THEN @
                                   ELSE LoopPiece(w, audio[w])]
  /\ UNCHANGED <<config, ctor, threads, coord_stop, queue, lc_queue, stop,
                 iter_left, file_index, category_id, audio, popped, stop_mark,
                 loaded>>

\* if self.lc_enabled: ... sess.run(self.lc_enqueue, ...); the loop's next
\* test follows.
LcEnqueue(w) ==
  /\ pc[w] = "lc_enqueue"
  /\ ~Full(lc_queue)
  /\ lc_queue' = Append(lc_queue, EmbeddingOf(w))
  /\ pushed' = [pushed EXCEPT !.lc = Append(@, EmbeddingOf(w))]
  /\ stat' = [stat EXCEPT ![w].lc = @ + 1]
  /\ pc' = [pc EXCEPT ![w] = LoopTop(audio[w])]
  /\ piece' = [piece EXCEPT ![w] = LoopPiece(w, audio[w])]
  /\ UNCHANGED <<config, ctor, threads, coord_stop, queue, gc_queue, stop,
                 iter_left, file_index, category_id, audio, popped, stop_mark,
                 loaded>>

\* else: sess.run(self.enqueue, feed_dict={self.sample_placeholder: audio})
EnqueueWhole(w) ==
  /\ pc[w] = "enqueue_whole"
  /\ ~Full(queue)
  /\ queue' = Append(queue, SampleOf(w, audio[w]))
  /\ pushed' = [pushed EXCEPT !.s = Append(@, SampleOf(w, audio[w]))]
  /\ stat' = [stat EXCEPT ![w].cut = @ + 1, ![w].s = @ + 1]
  /\ pc' = [pc EXCEPT ![w] = IF reader.gc_enabled THEN "gc_enqueue_whole" ELSE "for"]
  /\ UNCHANGED <<config, ctor, threads, coord_stop, gc_queue, lc_queue, locals,
                 popped, stop_mark, loaded>>

\* if self.gc_enabled: sess.run(self.gc_enqueue, ...), in whole-file mode
GcEnqueueWhole(w) ==
  /\ pc[w] = "gc_enqueue_whole"
  /\ ~Full(gc_queue)
  /\ gc_queue' = Append(gc_queue, category_id[w][1])
  /\ pushed' = [pushed EXCEPT !.gc = Append(@, category_id[w][1])]
  /\ stat' = [stat EXCEPT ![w].gc = @ + 1]
  /\ pc' = [pc EXCEPT ![w] = "for"]
  /\ UNCHANGED <<config, ctor, threads, coord_stop, queue, lc_queue, locals,
                 popped, stop_mark, loaded>>

\* One step of worker w.
Worker(w) ==
  \/ ForEnd(w)
  \/ \E index \in 1..Len(audio_dir) : ForNext(w, index)
  \/ ShouldStop(w)
  \/ Enqueue(w)
  \/ GcEnqueue(w)
  \/ LcEnqueue(w)
  \/ EnqueueWhole(w)
  \/ GcEnqueueWhole(w)

\* ---------------------------------------------------------------- consumer
\* A changed Dequeue: the newest element is taken first.
Dequeue_NewestFirst(num_elements) ==
  /\ ctor = "ok"
  /\ Len(queue) >= num_elements
  /\ popped' = [popped EXCEPT !.s =
                  @ \o [i \in 1..num_elements |-> queue[Len(queue) + 1 - i]]]
  /\ queue' = SubSeq(queue, 1, Len(queue) - num_elements)
  /\ UNCHANGED <<config, ctor, threads, coord_stop, gc_queue, lc_queue, pc, locals,
                 stat, pushed, stop_mark, loaded>>

\* dequeue(num_elements): queue.dequeue_many waits for num_elements elements.
Dequeue(num_elements) ==
  /\ ctor = "ok"
  /\ Len(queue) >= num_elements
  /\ popped' = [popped EXCEPT !.s = @ \o SubSeq(queue, 1, num_elements)]
  /\ queue' = SubSeq(queue, num_elements + 1, Len(queue))
  /\ UNCHANGED <<config, ctor, threads, coord_stop, gc_queue, lc_queue, pc, locals,
                 stat, pushed, stop_mark, loaded>>

DequeueGc(num_elements) ==
  /\ ctor = "ok"
  /\ reader.gc_enabled
  /\ Len(gc_queue) >= num_elements
  /\ popped' = [popped EXCEPT !.gc = @ \o SubSeq(gc_queue, 1, num_elements)]
  /\ gc_queue' = SubSeq(gc_queue, num_elements + 1, Len(gc_queue))
  /\ UNCHANGED <<config, ctor, threads, coord_stop, queue, lc_queue, pc, locals,
                 stat, pushed, stop_mark, loaded>>

DequeueLc(num_elements) ==
  /\ ctor = "ok"
  /\ reader.lc_enabled
  /\ Len(lc_queue) >= num_elements
  /\ popped' = [popped EXCEPT !.lc = @ \o SubSeq(lc_queue, 1, num_elements)]
  /\ lc_queue' = SubSeq(lc_queue, num_elements + 1, Len(lc_queue))
  /\ UNCHANGED <<config, ctor, threads, coord_stop, queue, gc_queue, pc, locals,
                 stat, pushed, stop_mark, loaded>>

Next ==
  \/ Construct
  \/ \E n_threads \in 1..MaxThreads : StartThreads(n_threads)
  \/ RequestStop
  \/ \E w \in Workers : Worker(w)
  \/ \E num_elements \in 1..MaxBatch : Dequeue(num_elements)
  \/ \E num_elements \in 1..MaxBatch : DequeueGc(num_elements)
  \/ \E num_elements \in 1..MaxBatch : DequeueLc(num_elements)

Spec == Init /\ [][Next]_vars

\* The reader as its default start_threads(sess) runs it: one worker.
NextSingle ==
  \/ Construct
  \/ StartThreads(1)
  \/ RequestStop
  \/ Worker(1)
  \/ \E num_elements \in 1..MaxBatch : Dequeue(num_elements)
  \/ \E num_elements \in 1..MaxBatch : DequeueGc(num_elements)
  \/ \E num_elements \in 1..MaxBatch : DequeueLc(num_elements)

SpecSingle == Init /\ [][NextSingle]_vars

\* ----------------------------------------------- directories of named files
MaxDir == 3          \* most files in a directory of files that all carry an id

\* The decimal digits of n, as a file name spells them.
RECURSIVE DigitsOf(_)
DigitsOf(n) ==
  LET last == CHOOSE c \in Digits : DigitVal(c) = n % 10
  IN  IF n < 10 THEN <<last>> ELSE DigitsOf(n \div 10) \o <<last>>

\* The name p<pianist>_<recording>.wav.
NameOf(pianist, recording) ==
  <<"p">> \o DigitsOf(pianist) \o <<"_">> \o DigitsOf(recording)
    \o <<".", "w", "a", "v">>

PianistIds == {2, 5, 9, 12}
RecordingId == 40

\* A one-window file of a pianist; pianist is the id its name was spelt from.
FileOf(id) ==
  [name |-> NameOf(id, RecordingId), decodes |-> TRUE,
   raw |-> Recording(Loud(SampleSize + 1)), pianist |-> id]

NamedFiles == {FileOf(id) : id \in PianistIds}

RECURSIVE Directories(_)
Directories(n) ==
  IF n = 0 THEN {}
  ELSE [1..n -> NamedFiles] \cup Directories(n - 1)

\* The reader over a directory of files that all carry an id, with category
\* conditioning on, in fixed-size mode, up to the point where its queues are
\* full.
InitCardinality ==
  /\ audio_dir \in Directories(MaxDir)
  /\ reader = [gc_enabled |-> TRUE, lc_enabled |-> FALSE,
               sample_size |-> SampleSize, silence_threshold |-> None,
               receptive_field |-> ReceptiveField, sample_rate |-> SampleRate,
               queue_size |-> QueueSize]
  /\ ctor = "new"
  /\ threads = {}
  /\ coord_stop = FALSE
  /\ queue = <<>>
  /\ gc_queue = <<>>
  /\ lc_queue = <<>>
  /\ pc = [w \in Workers |-> "idle"]
  /\ stop = [w \in Workers |-> FALSE]
  /\ iter_left = [w \in Workers |-> 0]
  /\ file_index = [w \in Workers |-> 0]
  /\ category_id = [w \in Workers |-> None]
  /\ audio = [w \in Workers |-> <<>>]
  /\ piece = [w \in Workers |-> <<>>]
  /\ stat = [w \in Workers |->
               [nth |-> 0, padded |-> 0, cut |-> 0, s |-> 0, gc |-> 0, lc |-> 0]]
  /\ pushed = [s |-> <<>>, gc |-> <<>>, lc |-> <<>>]
  /\ popped = [s |-> <<>>, gc |-> <<>>, lc |-> <<>>]
  /\ stop_mark = [at |-> 0, nth |-> [w \in Workers |-> 0]]
  /\ loaded = 0

NextCardinality ==
  \/ Construct
  \/ StartThreads(1)
  \/ ForEnd(1)
  \/ \E index \in 1..Len(audio_dir) : ForNext(1, index)
  \/ ShouldStop(1)
  \/ Enqueue(1)
  \/ GcEnqueue(1)

SpecCardinality == InitCardinality /\ [][NextCardinality]_vars

\* ------------------------------------------------ the conditioning embedding
MaxPitches == 6      \* min(nonzero_cnt, 6)
RowLength == 7       \* lc_channels, scaled down
MaxMagnitude == 2    \* the largest magnitude of a bin

\* A frame's row of magnitudes, magnitudes[i]: librosa.piptrack's result is
\* taken to be any row of non-negative numbers.
MagnitudeRows == [1..RowLength -> 0..MaxMagnitude]

\* The index sets np.argpartition(a, -k)[-k:] can be: the element at position
\* -k is in its sorted place, none before it is greater and none after it is
\* smaller; Python's a[-0:] is all of a.
ArgPartitionTail(a, k) ==
  IF k = 0 THEN {DOMAIN a}
  ELSE {T \in SUBSET DOMAIN a :
          /\ Cardinality(T) = k
          /\ \E t \in T : /\ \A j \in (DOMAIN a) \ T : a[j] <= a[t]
                          /\ \A i \in T : a[i] >= a[t]}

\* A changed LargestMags: the argpartition without the test of zero.
LargestMags_Unguarded(a, num_ind_to_keep) == ArgPartitionTail(a, num_ind_to_keep)

\* ind_of_largest_mags: np.argpartition(...)[-k:] if k != 0 else []
LargestMags(a, num_ind_to_keep) ==
  IF num_ind_to_keep # 0 THEN ArgPartitionTail(a, num_ind_to_keep) ELSE {{}}

\* num_ind_to_keep = min(len(np.nonzero(magnitudes[i])[0]), 6)
NumIndToKeep(a) == Min(Cardinality({j \in DOMAIN a : a[j] # 0}), MaxPitches)

\* np.put(lc_embedding[i], ind, [1.0]) on a row of np.zeros.
EmbeddingRow(a, ind) == [j \in DOMAIN a |-> IF j \in ind THEN Unit ELSE 0]

\* Lines 201-217 with the embedding spelled out for one frame, of the first
\* window the worker enqueues.
LcEnqueueRow(w) ==
  /\ pc[w] = "lc_enqueue"
  /\ ~Full(lc_queue)
  /\ pushed.lc = <<>>
  /\ \E magnitudes \in MagnitudeRows :
       \E ind \in LargestMags(magnitudes, NumIndToKeep(magnitudes)) :
         LET lc_embedding ==
               [by |-> w, nth |-> stat[w].nth, off |-> stat[w].cut - 1,
                magnitudes |-> magnitudes,
                row |-> EmbeddingRow(magnitudes, ind)]
         IN  /\ lc_queue' = Append(lc_queue, lc_embedding)
             /\ pushed' = [pushed EXCEPT !.lc = Append(@, lc_embedding)]
  /\ stat' = [stat EXCEPT ![w].lc = @ + 1]
  /\ pc' = [pc EXCEPT ![w] = LoopTop(audio[w])]
  /\ piece' = [piece EXCEPT ![w] = LoopPiece(w, audio[w])]
  /\ UNCHANGED <<config, ctor, threads, coord_stop, queue, gc_queue, stop,
                 iter_left, file_index, category_id, audio, popped, stop_mark,
                 loaded>>

\* The reader with the conditioning embedding on, in fixed-size mode.
InitEmbedding ==
  /\ Init
  /\ audio_dir = <<FileD>>
  /\ reader.lc_enabled
  /\ ~reader.gc_enabled
  /\ reader.sample_size # 0

NextEmbedding ==
  \/ Construct
  \/ StartThreads(1)
  \/ \E index \in 1..Len(audio_dir) : ForNext(1, index)
  \/ ShouldStop(1)
  \/ Enqueue(1)
  \/ LcEnqueueRow(1)

SpecEmbedding == InitEmbedding /\ [][NextEmbedding]_vars

\* ------------------------------------- the reader and a consumer, left to run
\* The directories in which every file decodes and gives at least one window.
FullCorpora == {<<FileA, FileB>>, <<FileD>>}

\* A constructible reader in fixed-size mode that is never stopped, and a
\* consumer that asks every enabled queue for batches of popped.batch
\* elements, at most queue_size.
InitLive ==
  /\ audio_dir \in FullCorpora
  /\ reader \in Readers(None)
  /\ reader.sample_size # 0
  /\ ~InitRaises(audio_dir, reader.gc_enabled)
  /\ ctor = "new"
  /\ threads = {}
  /\ coord_stop = FALSE
  /\ queue = <<>>
  /\ gc_queue = <<>>
  /\ lc_queue = <<>>
  /\ pc = [w \in Workers |-> "idle"]
  /\ stop = [w \in Workers |-> FALSE]
  /\ iter_left = [w \in Workers |-> 0]
  /\ file_index = [w \in Workers |-> 0]
  /\ category_id = [w \in Workers |-> None]
  /\ audio = [w \in Workers |-> <<>>]
  /\ piece = [w \in Workers |-> <<>>]
  /\ stat = [w \in Workers |->
               [nth |-> 0, padded |-> 0, cut |-> 0, s |-> 0, gc |-> 0, lc |-> 0]]
  /\ pushed = [s |-> <<>>, gc |-> <<>>, lc |-> <<>>]
  /\ \E batch \in 1..Min(MaxBatch, QueueSize) :
       popped = [s |-> <<>>, gc |-> <<>>, lc |-> <<>>, batch |-> batch]
  /\ stop_mark = [at |-> 0, nth |-> [w \in Workers |-> 0]]
  /\ loaded = 0

\* One step of worker w in fixed-size mode.
WorkerLive(w) ==
  \/ ForEnd(w)
  \/ \E index \in 1..Len(audio_dir) : ForNext(w, index)
  \/ ShouldStop(w)
  \/ Enqueue(w)
  \/ GcEnqueue(w)
  \/ LcEnqueue(w)

NextLive ==
  \/ Construct
  \/ \E n_threads \in 1..MaxThreads : StartThreads(n_threads)
  \/ \E w \in Workers : WorkerLive(w)
  \/ Dequeue(popped.batch)
  \/ DequeueGc(popped.batch)
  \/ DequeueLc(popped.batch)

\* Every thread that can take a step is scheduled in the end, and so is the
\* consumer when the batch it waits for is there.
SpecLive ==
  /\ InitLive
  /\ [][NextLive]_vars
  /\ \A w \in Workers : WF_vars(WorkerLive(w))
  /\ WF_vars(Dequeue(popped.batch))
  /\ WF_vars(DequeueGc(popped.batch))
  /\ WF_vars(DequeueLc(popped.batch))

\* ================================================================== claims
SameWindow(a, b) == a.by = b.by /\ a.nth = b.nth /\ a.off = b.off

\* The id the pattern's first group gives for the file a sample was cut from.
NameId(sample) == FindAll(audio_dir[sample.src].name)[1][1]

\* C1: with category conditioning on and any number of workers, the k-th
\* element ever enqueued on the category-id queue is the id of the file of the
\* k-th window ever enqueued on the samples queue, and the k-th embedding
\* ever enqueued is that of the k-th window.
C1_QueuesAligned ==
  reader.gc_enabled =>
    /\ \A k \in 1..Min(Len(pushed.s), Len(pushed.gc)) :
         pushed.gc[k] = NameId(pushed.s[k])
    /\ reader.lc_enabled =>
         \A k \in 1..Min(Len(pushed.s), Len(pushed.lc)) :
           SameWindow(pushed.lc[k], pushed.s[k])

\* A worker inside an enqueue on a queue that is full.
BlockedOnFull(w) ==
  \/ pc[w] \in {"enqueue", "enqueue_whole"} /\ Full(queue)
  \/ pc[w] \in {"gc_enqueue", "gc_enqueue_whole"} /\ Full(gc_queue)
  \/ pc[w] = "lc_enqueue" /\ Full(lc_queue)

\* C2: once the stop is requested, a worker blocked in an enqueue on a full
\* queue can go on by itself (it returns from the enqueue without pushing),
\* with no consumer draining the queue.
C2_CancelledPushReturns ==
  \A w \in threads : (coord_stop /\ BlockedOnFull(w)) => ENABLED Worker(w)

\* A worker that has finished segmenting a file in fixed-size mode.
FileSegmented(w) == pc[w] = "for" /\ stat[w].nth > 0 /\ reader.sample_size # 0

\* C3, as claimed: every window has length R + S and a padded waveform of
\* length L gives floor((L - R - S) / S) windows when L > R + S, else none.
C3_FloorCount ==
  /\ reader.sample_size # 0 =>
       \A k \in DOMAIN pushed.s : Len(pushed.s[k].piece) = Window
  /\ \A w \in threads :
       FileSegmented(w) =>
         stat[w].cut = IF stat[w].padded > Window
                       THEN (stat[w].padded - Window) \div reader.sample_size
                       ELSE 0

\* C3, amended: every window has length R + S and a padded waveform of length
\* L gives ceil((L - R - S) / S) windows when L > R + S, else none.
C3_CeilCount ==
  /\ reader.sample_size # 0 =>
       \A k \in DOMAIN pushed.s : Len(pushed.s[k].piece) = Window
  /\ \A w \in threads :
       FileSegmented(w) =>
         stat[w].cut = IF stat[w].padded > Window
                       THEN (stat[w].padded - Window + reader.sample_size - 1)
                              \div reader.sample_size
                       ELSE 0

\* C3's case: a file segmented into at least one window whose padded length
\* leaves a remainder.
C3_Witness ==
  \E w \in threads :
    /\ FileSegmented(w)
    /\ stat[w].cut >= 1
    /\ (stat[w].padded - Window) % reader.sample_size # 0

\* C4: in every configuration, a worker that is between two files has pushed
\* as many elements on each enabled auxiliary queue as on the samples queue.
C4_OnePushPerWindow ==
  \A w \in threads :
    pc[w] = "for" =>
      /\ reader.gc_enabled => stat[w].gc = stat[w].s
      /\ reader.lc_enabled => stat[w].lc = stat[w].s

\* C5: with one worker and category conditioning on, the k-th id dequeued is
\* the id in the name of the file the k-th window dequeued was cut from.
C5_SingleWorkerAligned ==
  (threads = {1} /\ reader.gc_enabled) =>
    \A k \in 1..Min(Len(popped.s), Len(popped.gc)) :
      popped.gc[k] = NameId(popped.s[k])

\* C5's case: one worker, and windows of two files with different ids dequeued
\* with their ids.
C5_Witness ==
  /\ threads = {1}
  /\ reader.gc_enabled
  /\ \E j, k \in 1..Min(Len(popped.s), Len(popped.gc)) :
       NameId(popped.s[j]) # NameId(popped.s[k])

\* C6: no queue ever holds more than queue_size elements, a worker at a full
\* queue waits, and everything cut was enqueued and is either in its queue
\* or with the consumer, in order.
C6_BoundedNoLoss ==
  /\ Len(queue) <= reader.queue_size
  /\ Len(gc_queue) <= reader.queue_size
  /\ Len(lc_queue) <= reader.queue_size
  /\ pushed.s = popped.s \o queue
  /\ pushed.gc = popped.gc \o gc_queue
  /\ pushed.lc = popped.lc \o lc_queue
  /\ \A w \in threads :
       /\ BlockedOnFull(w) => ~ENABLED Worker(w)
       /\ Cardinality({k \in DOMAIN pushed.s :
                         pushed.s[k].by = w /\ pushed.s[k].nth = stat[w].nth})
            = stat[w].cut

\* C6's case: a worker waits at a full queue.
C6_Witness ==
  \E w \in threads : BlockedOnFull(w) /\ Len(popped.s) > 0

\* A file that is empty once its silence is trimmed.
EmptyAfterTrim(file) ==
  /\ reader.silence_threshold # None
  /\ file.decodes
  /\ trim_silence(Decoded(file), reader.silence_threshold[1]) = <<>>

\* C7: nothing is enqueued for a file that is empty after the trimming, in
\* either mode.
C7_SilentFileSkipped ==
  \A k \in DOMAIN pushed.s : ~EmptyAfterTrim(audio_dir[pushed.s[k].src])

\* C8: a worker ends only through the cancellation: a file that fails to
\* decode does not end it.
C8_DecodeFailureContained ==
  \A w \in threads : pc[w] \in {"exit", "raised"} => stop[w]

\* C9: the constructor fails exactly when the directory holds no file, or
\* category conditioning is on and a name has no id; a failed constructor
\* has started no thread and enqueued nothing.
C9_StartupFailure ==
  /\ ctor # "new" =>
       (ctor = "ValueError" <=>
          \/ Len(audio_dir) = 0
          \/ /\ reader.gc_enabled
             /\ \E i \in DOMAIN audio_dir : FindAll(audio_dir[i].name) = None)
  /\ ctor = "ValueError" =>
       /\ threads = {}
       /\ \A w \in Workers : pc[w] = "idle"
       /\ pushed = [s |-> <<>>, gc |-> <<>>, lc |-> <<>>]

\* C9's case: the constructor failed over a name without an id.
C9_Witness ==
  ctor = "ValueError" /\ reader.gc_enabled /\ Len(audio_dir) > 0

\* The windows worker w enqueued after the stop was requested.
LatePushes(w) ==
  {k \in (stop_mark.at + 1)..Len(pushed.s) : pushed.s[k].by = w}

PaddedOf(sample) == Preprocessed(Decoded(audio_dir[sample.src]))

\* C11: in fixed-size mode the k-th window (k from 0) cut from a padded
\* waveform is its slice [k*S, k*S + R + S), of full length, and the first R
\* samples of a window are the last R samples of the window before it.
C11_WindowSlices ==
  reader.sample_size # 0 =>
    /\ \A k \in DOMAIN pushed.s :
         LET e == pushed.s[k]
         IN  /\ Len(e.piece) = reader.receptive_field + reader.sample_size
             /\ e.off * reader.sample_size + Len(e.piece) <= Len(PaddedOf(e))
             /\ e.piece = Slice(PaddedOf(e), e.off * reader.sample_size,
                                e.off * reader.sample_size
                                  + reader.receptive_field + reader.sample_size)
    /\ \A j, k \in DOMAIN pushed.s :
         (/\ pushed.s[j].by = pushed.s[k].by
          /\ pushed.s[j].nth = pushed.s[k].nth
          /\ pushed.s[k].off = pushed.s[j].off + 1)
         => SubSeq(pushed.s[k].piece, 1, reader.receptive_field)
              = SubSeq(pushed.s[j].piece, reader.sample_size + 1,
                       reader.sample_size + reader.receptive_field)

\* C11's case: two consecutive windows of one file, with different samples,
\* have been enqueued.
C11_Witness ==
  /\ reader.sample_size # 0
  /\ \E j, k \in DOMAIN pushed.s :
       /\ pushed.s[j].by = pushed.s[k].by
       /\ pushed.s[j].nth = pushed.s[k].nth
       /\ pushed.s[k].off = pushed.s[j].off + 1
       /\ pushed.s[k].piece # pushed.s[j].piece

\* s holds the windows each worker cut from one file in the order it cut them.
InCutOrder(s) ==
  \A j, k \in DOMAIN s :
    (j < k /\ s[j].by = s[k].by /\ s[j].nth = s[k].nth) => s[j].off < s[k].off

\* C12: with any number of workers, the windows a worker cut from one file
\* are in the samples queue in the order they were cut, and the consumer has
\* them in that order.
C12_PerWorkerOrder ==
  /\ InCutOrder(queue)
  /\ InCutOrder(popped.s)
  /\ InCutOrder(popped.s \o queue)

\* C12's case: two workers' windows are interleaved with the consumer, the
\* two windows of one file around a window of the other worker.
C12_Witness ==
  \E i, j, k \in DOMAIN popped.s :
    /\ i < j /\ j < k
    /\ popped.s[i].by = popped.s[k].by
    /\ popped.s[i].nth = popped.s[k].nth
    /\ popped.s[j].by # popped.s[i].by

\* C13: a worker enqueues samples, then the id, then the embedding, on the
\* queues that are enabled, and is at an enqueue of samples only when its
\* earlier windows have their id and their embedding enqueued.
C13_FixedPushOrder ==
  \A w \in threads :
    /\ pc[w] \in {"enqueue", "enqueue_whole"} =>
         /\ reader.gc_enabled => stat[w].gc = stat[w].s
         /\ reader.lc_enabled => stat[w].lc = stat[w].s
    /\ pc[w] \in {"gc_enqueue", "gc_enqueue_whole"} =>
         /\ stat[w].s = stat[w].gc + 1
         /\ reader.lc_enabled => stat[w].lc = stat[w].gc
    /\ pc[w] = "lc_enqueue" =>
         /\ stat[w].s = stat[w].lc + 1
         /\ reader.gc_enabled => stat[w].gc = stat[w].s

C19_IdLagBounded ==
  reader.gc_enabled =>
    /\ Len(pushed.s) - Len(pushed.gc) >= 0
    /\ Len(pushed.s) - Len(pushed.gc) <= Cardinality(threads)
    /\ \A w \in threads : stat[w].s - stat[w].gc \in {0, 1}

\* C19's case: two workers have each enqueued a window and not yet its id.
C19_Witness ==
  /\ reader.gc_enabled
  /\ Cardinality(threads) = 2
  /\ Len(pushed.s) - Len(pushed.gc) = 2

\* Every energy frame of a waveform exceeds the threshold.
AllLoud(a, threshold) ==
  LET frame_length == IF Len(a) < FrameLength THEN Len(a) ELSE FrameLength
      last == (Len(a) + 2 * (frame_length \div 2) - frame_length) \div HopLength
  IN  /\ Len(a) > 0
      /\ LoudFrames(a, threshold, frame_length) = 0..last

\* C17: a waveform whose every frame exceeds the threshold goes through
\* trim_silence unchanged, so that the worker pads the whole of it.
C17_LoudUnchanged ==
  \A w \in threads :
    LET decoded == Decoded(audio_dir[file_index[w]])
    IN  (/\ reader.silence_threshold # None
         /\ stat[w].padded > 0
         /\ AllLoud(decoded, reader.silence_threshold[1]))
        => /\ trim_silence(decoded, reader.silence_threshold[1]) = decoded
           /\ stat[w].padded = reader.receptive_field + Len(decoded)

\* C18: an epoch has at most len(files) draws left, a worker that has left
\* its loop has seen the stop, and the file it had decoded when it saw the
\* stop has no window on the samples queue.
C18_EpochsUntilStop ==
  \A w \in threads :
    /\ iter_left[w] \in 0..Len(audio_dir)
    /\ file_index[w] \in 0..Len(audio_dir)
    /\ pc[w] \in {"exit", "raised"} => (stop[w] /\ coord_stop)
    /\ pc[w] = "exit" =>
         \A k \in DOMAIN pushed.s :
           ~(pushed.s[k].by = w /\ pushed.s[k].nth = stat[w].nth)

\* The ids the names of the directory were spelt from.
PianistsOf(files) == {files[i].pianist : i \in DOMAIN files}

\* C15: over files that all carry an id, get_category_cardinality gives the
\* least and the greatest id of the names, the constructor leaves
\* gc_category_cardinality at the greatest id plus one, and every id enqueued
\* is the id of its file and lies in 0 .. gc_category_cardinality - 1.
C15_Cardinality ==
  ctor = "ok" =>
    /\ get_category_cardinality(audio_dir)
         = <<Some(SetMin(PianistsOf(audio_dir))), Some(SetMax(PianistsOf(audio_dir)))>>
    /\ gc_category_cardinality = Some(SetMax(PianistsOf(audio_dir)) + 1)
    /\ \A k \in DOMAIN pushed.gc :
         /\ pushed.gc[k] \in 0..(gc_category_cardinality[1] - 1)
         /\ pushed.gc[k] = audio_dir[pushed.s[k].src].pianist

\* C15's case: names with the ids 2, 5 and 9, not in order, give (2, 9) and a
\* table of 10, and the id 9 has been enqueued.
C15_Witness ==
  /\ ctor = "ok"
  /\ PianistsOf(audio_dir) = {2, 5, 9}
  /\ audio_dir[1].pianist = 5
  /\ audio_dir[Len(audio_dir)].pianist = 2
  /\ get_category_cardinality(audio_dir) = <<Some(2), Some(9)>>
  /\ gc_category_cardinality = Some(10)
  /\ \E k \in DOMAIN pushed.gc : pushed.gc[k] = 9

\* The indices of a row that hold v.
Holding(row, v) == {j \in DOMAIN row : row[j] = v}

\* C16: the embedding row of a frame has min(6, nonzero magnitudes) entries
\* at 1.0 and the others at 0.0; every 1.0 is at a nonzero magnitude that is
\* no smaller than any magnitude left at 0.0; a row of zero magnitudes gives
\* a row of zeros.
C16_LargestPitches ==
  \A k \in DOMAIN pushed.lc :
    LET m == pushed.lc[k].magnitudes
        row == pushed.lc[k].row
        nonzero == Cardinality({j \in DOMAIN m : m[j] # 0})
    IN  /\ DOMAIN row = DOMAIN m
        /\ Cardinality(Holding(row, Unit)) = IF nonzero < 6 THEN nonzero ELSE 6
        /\ Holding(row, Unit) \cup Holding(row, 0) = DOMAIN row
        /\ \A j \in Holding(row, Unit) :
             /\ m[j] # 0
             /\ \A i \in Holding(row, 0) : m[j] >= m[i]
        /\ nonzero = 0 => Holding(row, 0) = DOMAIN row

\* C16's case: a frame with more than six nonzero magnitudes, not all equal,
\* has its embedding enqueued.
C16_Witness ==
  \E k \in DOMAIN pushed.lc :
    LET m == pushed.lc[k].magnitudes
    IN  /\ Cardinality({j \in DOMAIN m : m[j] # 0}) > 6
        /\ \E i, j \in DOMAIN m : m[i] < m[j]
        /\ Cardinality(Holding(pushed.lc[k].row, Unit)) = 6

\* The consumer can take its batch from some enabled queue.
ConsumerCanDequeue ==
  \/ ENABLED Dequeue(popped.batch)
  \/ ENABLED DequeueGc(popped.batch)
  \/ ENABLED DequeueLc(popped.batch)

\* When every worker is inside an enqueue, one of them or the consumer can go on.
NeverAllBlocked ==
  (threads # {} /\ \A w \in threads : pc[w] \in EnqueuePcs) =>
    \/ \E w \in threads : ENABLED WorkerLive(w)
    \/ ConsumerCanDequeue

\* The batches the files of the run fill: every file gives a window or more.
BatchesDue == popped.batch * (MaxFiles \div popped.batch)

BatchesDelivered ==
  /\ Len(popped.s) >= BatchesDue
  /\ reader.gc_enabled => Len(popped.gc) >= BatchesDue
  /\ reader.lc_enabled => Len(popped.lc) >= BatchesDue

\* C20: without a stop, in fixed-size mode over files that all give a window,
\* the workers and a consumer of batches of at most queue_size never all
\* wait for one another, and once the threads run the consumer gets, from
\* every enabled queue, every batch the files fill.
C20_NoDeadlock ==
  /\ []NeverAllBlocked
  /\ (threads # {}) ~> BatchesDelivered

\* C20's case: two workers, both conditionings on, a consumer of batches of
\* queue_size; every worker waits at a full queue and only the consumer can
\* go on.
C20_Witness ==
  /\ Cardinality(threads) = 2
  /\ reader.gc_enabled /\ reader.lc_enabled
  /\ popped.batch = reader.queue_size
  /\ \A w \in threads : BlockedOnFull(w)
  /\ ConsumerCanDequeue

====
